---- MODULE Spec2Model ----
(***************************************************************************)
(* Model of the Voice IDE orchestrator:                                    *)
(*   planner/task_planner.py  TaskPlanner (task store, plan, completion)   *)
(*   main.py                  VoiceIDE    (queue, drain loop, history)     *)
(* The two classes do not call each other: PlannerSpec drives a            *)
(* TaskPlanner, OrchSpec drives a VoiceIDE.                                *)
(***************************************************************************)
EXTENDS Integers, Sequences, FiniteSets, TLC

VARIABLES
    tasks,            \* TaskPlanner.tasks: dict in insertion order, as a sequence of Task
    current_task_id,  \* TaskPlanner.current_task_id: n for "task_n", 0 for None
    issued,           \* ids handed out by create_task so far, in order (history variable)
    created,          \* number of Task objects constructed so far (history variable)
    nPlans,           \* number of plan_tasks calls made (history variable)
    ret,              \* last planner call: its name, result argument and return value
    nUpdates,         \* number of update_task_status calls made
    summary,          \* what the last planner call returned when it was get_status_summary
    last_command,     \* the command of the last planner call when it was plan_tasks
    running,          \* VoiceIDE.running
    current_task,     \* VoiceIDE.current_task: a task dict, NoTask for None
    task_queue,       \* VoiceIDE.task_queue: list of task dicts
    history,          \* VoiceIDE.history: list of event dicts
    tasks_file,       \* .voice_ide/tasks.json: absent, malformed or a document
    history_file,     \* .voice_ide/history.json: absent, malformed or a document
    pc,               \* where the VoiceIDE thread is: "idle" outside process_command,
                      \* else the point reached inside process_next_task
    exc,              \* the exception being handled in process_next_task, None if none
    enqueued,         \* uids of the tasks put in task_queue, in order (history variable)
    started,          \* uids of the tasks popped by process_next_task, in order (history variable)
    raised,           \* the tasks whose try block raised, with the messages (history variable)
    nCommands,        \* number of process_command calls made
    faults,           \* number of failing save_state calls the storage may still cause
    store_op,         \* the last access to the store: "load", or the outcome of save_state
    repl              \* the prompt loop of start: the status shown, the line read and
                      \* how it was handled, the answer to the exit question

plannerVars == <<tasks, current_task_id, issued, created, nPlans, ret, nUpdates,
                 summary, last_command>>

orchVars == <<running, current_task, task_queue, history, tasks_file, history_file,
              pc, exc, enqueued, started, raised, nCommands, faults, store_op,
              repl>>

vars == <<plannerVars, orchVars>>

----------------------------------------------------------------------------
(* Bounds of the model *)

\* create_task calls per planner
MaxCreated == 5

\* create_task calls per planner where update_task_status is called too
MaxUpdCreated == 2

\* update_task_status calls per planner
MaxUpdates == 2

\* plan_tasks calls per planner where the rule chain is fed every command
MaxRulePlans == 2

\* commands given to the sessions of one store where task ids are compared
MaxIdCommands == 2

\* lines read and interrupts taken at the prompt of one session
MaxLines == 2

\* get_status calls made from outside the prompt loop
MaxStatusCalls == 1

\* plan_tasks calls per planner where plans of several tasks follow a clear
MaxClearPlans == 2

\* process_command calls per VoiceIDE
MaxCommands == 2

\* pending tasks found in tasks.json at startup
MaxLoaded == 2

\* failing save_state calls per store
MaxFaults == 1

\* process_command calls per VoiceIDE where the store is restarted from
MaxStoreCommands == 1

\* history entries beyond the 100 that save_state keeps
MaxExcess == 50

----------------------------------------------------------------------------
(* Values *)

None == "None"

\* TaskStatus (task_planner.py:15-19)
TaskStatus == {"pending", "in_progress", "completed", "failed"}

\* results and errors a caller passes
Results == {None, "ok"}
Errors == {None, "boom"}

\* A command is a string, modelled as a sequence of one-character strings.
Str_login  == <<"l", "o", "g", "i", "n">>
Str_layout == <<"l", "a", "y", "o", "u", "t">>
Str_style  == <<"s", "t", "y", "l", "e">>
Str_api    == <<"a", "p", "i">>
Str_add    == <<"a", "d", "d">>
Str_create == <<"c", "r", "e", "a", "t", "e">>
Str_simple == <<"s", "i", "m", "p", "l", "e">>
Str_update == <<"u", "p", "d", "a", "t", "e">>
Str_fix == <<"f", "i", "x">>
Str_implement == <<"i", "m", "p", "l", "e", "m", "e", "n", "t">>
Str_refactor == <<"r", "e", "f", "a", "c", "t", "o", "r">>
Str_rewrite == <<"r", "e", "w", "r", "i", "t", "e">>
Str_migrate == <<"m", "i", "g", "r", "a", "t", "e">>
Str_redesign == <<"r", "e", "d", "e", "s", "i", "g", "n">>

\* the commands the model feeds to the planner
Commands ==
    { <<"L", "o", "g", "i", "n", " ", "l", "a", "y", "o", "u", "t">>,
      <<"a", "d", "d", " ", "A", "P", "I">>,
      <<"R", "u", "n">> }

\* the commands the model feeds to the rule chain of plan_tasks: each rule in
\* lower and upper case and through each of its alternatives, a command that
\* matches both rules, and commands that match half a rule
RuleCommands ==
    { <<"L", "o", "g", "i", "n", " ", "l", "a", "y", "o", "u", "t">>,
      <<"L", "O", "G", "I", "N", " ", "S", "T", "Y", "L", "E">>,
      <<"A", "d", "d", " ", "A", "P", "I", " ", "l", "o", "g", "i", "n", " ", "s", "t", "y", "l", "e">>,
      <<"a", "d", "d", " ", "A", "P", "I">>,
      <<"C", "r", "e", "a", "t", "e", " ", "a", "p", "i">>,
      <<"R", "u", "n">>,
      <<"l", "o", "g", "i", "n">>,
      <<"a", "p", "i", " ", "l", "a", "y", "o", "u", "t">>,
      <<"l", "o", "g", " ", "i", "n", " ", "s", "t", "y", "l", "e", " ", "a", "d", "d">> }

\* str.lower on the characters the commands use
LowerChar(c) ==
    CASE c = "L" -> "l"
      [] c = "A" -> "a"
      [] c = "P" -> "p"
      [] c = "I" -> "i"
      [] c = "R" -> "r"
      [] c = "O" -> "o"
      [] c = "G" -> "g"
      [] c = "N" -> "n"
      [] c = "S" -> "s"
      [] c = "T" -> "t"
      [] c = "Y" -> "y"
      [] c = "E" -> "e"
      [] c = "C" -> "c"
      [] c = "D" -> "d"
      [] c = "H" -> "h"
      [] c = "Q" -> "q"
      [] c = "U" -> "u"
      [] c = "W" -> "w"
      [] c = "X" -> "x"
      [] OTHER -> c

\* a planner that matches the command as it was typed
lower_AsTyped(s) == s

lower(s) == [i \in 1..Len(s) |-> LowerChar(s[i])]

\* Python's `sub in s` on strings
Contains(s, sub) ==
    \E i \in 0..(Len(s) - Len(sub)) :
        \A j \in 1..Len(sub) : s[i + j] = sub[j]

----------------------------------------------------------------------------
(* TaskPlanner *)

\* position of key k in the dict, 0 when absent
IndexOf(ts, k) ==
    IF \E i \in 1..Len(ts) : ts[i].id = k
    THEN CHOOSE i \in 1..Len(ts) : ts[i].id = k
    ELSE 0

HasKey(ts, k) == IndexOf(ts, k) # 0

\* dict[k] = v: an existing key keeps its position, a new key goes last
DictSet(ts, t) ==
    IF HasKey(ts, t.id)
    THEN [ts EXCEPT ![IndexOf(ts, t.id)] = t]
    ELSE Append(ts, t)

\* the n of f"task_{len(self.tasks) + 1}"
NewTaskId(ts) == Len(ts) + 1

\* TaskPlanner.create_task: st is [tasks, issued, created, plan, out]; the new Task
\* is appended to out, the list plan_tasks builds.  obj is the Task object's
\* identity (its creation number), plan the plan_tasks call that made it.
create_task(st, description, metadata) ==
    LET task_id == NewTaskId(st.tasks)
        task == [id |-> task_id,
                 description |-> description,
                 status |-> "pending",
                 result |-> None,
                 error |-> None,
                 metadata |-> metadata,
                 obj |-> st.created + 1,
                 plan |-> st.plan]
    IN  [tasks |-> DictSet(st.tasks, task),
         issued |-> Append(st.issued, task_id),
         created |-> st.created + 1,
         plan |-> st.plan,
         out |-> Append(st.out, task)]

Label(text) == [text |-> text, arg |-> <<>>]

LoginTemplate ==
    << [description |-> Label("Locate login page files"),
        metadata |-> [type |-> "file_discovery",
                      patterns |-> "*login*.{js,jsx,ts,tsx,html,css,scss}"]],
       [description |-> Label("Analyze current layout structure"),
        metadata |-> [type |-> "code_analysis", target |-> "login_component"]],
       [description |-> Label("Update CSS for modern styling"),
        metadata |-> [type |-> "code_modification", target |-> "login_styles"]],
       [description |-> Label("Ensure responsive design"),
        metadata |-> [type |-> "code_modification", target |-> "responsive_design"]],
       [description |-> Label("Test across different screen sizes"),
        metadata |-> [type |-> "testing", target |-> "responsive_testing"]] >>

ApiTemplate ==
    << [description |-> Label("Identify API endpoint requirements"),
        metadata |-> [type |-> "analysis", target |-> "api_requirements"]],
       [description |-> Label("Create API endpoint implementation"),
        metadata |-> [type |-> "code_creation", target |-> "api_implementation"]],
       [description |-> Label("Add input validation"),
        metadata |-> [type |-> "code_modification", target |-> "input_validation"]],
       [description |-> Label("Write unit tests"),
        metadata |-> [type |-> "testing", target |-> "unit_tests"]] >>

GenericTemplate(command) ==
    << [description |-> [text |-> "Process command: ", arg |-> command],
        metadata |-> [type |-> "general", command |-> command]] >>

\* a rule chain that tries the api rule first
Template_ApiFirst(command) ==
    IF Contains(command, Str_api)
       /\ (Contains(command, Str_add) \/ Contains(command, Str_create))
    THEN ApiTemplate
    ELSE IF Contains(command, Str_login)
            /\ (Contains(command, Str_layout) \/ Contains(command, Str_style))
    THEN LoginTemplate
    ELSE GenericTemplate(command)

\* the rule chain of plan_tasks, on the lowered command
Template(command) ==
    IF Contains(command, Str_login)
       /\ (Contains(command, Str_layout) \/ Contains(command, Str_style))
    THEN LoginTemplate
    ELSE IF Contains(command, Str_api)
            /\ (Contains(command, Str_add) \/ Contains(command, Str_create))
    THEN ApiTemplate
    ELSE GenericTemplate(command)

RECURSIVE CreateAll(_, _)
CreateAll(st, tpl) ==
    IF tpl = <<>> THEN st
    ELSE CreateAll(create_task(st, Head(tpl).description, Head(tpl).metadata),
                   Tail(tpl))

\* current_task_id after plan_tasks built the list out
PlanCurrent(out, cur) == IF out # <<>> THEN out[1].id ELSE cur

\* the record of a planner call: name, result argument, and the return value as
\* a task list (plan_tasks), a task id (complete_current_task, 0 for None) or a
\* flag (update_task_status)
Ret(op, arg, list, id, ok) ==
    [op |-> op, arg |-> arg, list |-> list, id |-> id, ok |-> ok]

\* the summary variable after a call that is not get_status_summary
NoSummary ==
    [total_tasks |-> 0, completed |-> 0, in_progress |-> 0, pending |-> 0,
     current_task |-> 0, tasks |-> <<>>]

plan_tasks(cmd) ==
    LET command == lower(cmd)
        st == CreateAll([tasks |-> tasks, issued |-> issued, created |-> created,
                         plan |-> nPlans + 1, out |-> <<>>],
                        Template(command))
    IN  /\ tasks' = st.tasks
        /\ issued' = st.issued
        /\ created' = st.created
        /\ nPlans' = nPlans + 1
        /\ current_task_id' = PlanCurrent(st.out, current_task_id)
        /\ ret' = Ret("plan_tasks", None, st.out, 0, TRUE)
        /\ summary' = NoSummary
        /\ last_command' = cmd
        /\ UNCHANGED nUpdates

\* the task store after update_task_status on a present key
SetStatus(ts, task_id, status, result, error) ==
    [ts EXCEPT ![IndexOf(ts, task_id)] =
        [@ EXCEPT !.status = status, !.result = result, !.error = error]]

\* an update that falls back to the oldest task when the key is absent
UpdateStatus_Fallback(ts, task_id, status, result, error) ==
    IF HasKey(ts, task_id) THEN SetStatus(ts, task_id, status, result, error)
    ELSE IF ts = <<>> THEN ts
    ELSE SetStatus(ts, ts[1].id, status, result, error)

UpdateStatus(ts, task_id, status, result, error) ==
    IF ~HasKey(ts, task_id) THEN ts
    ELSE SetStatus(ts, task_id, status, result, error)

update_task_status(task_id, status, result, error) ==
    /\ tasks' = UpdateStatus(tasks, task_id, status, result, error)
    /\ nUpdates' = nUpdates + 1
    /\ ret' = Ret("update_task_status", result, <<>>, task_id, HasKey(tasks, task_id))
    /\ summary' = NoSummary
    /\ last_command' = <<>>
    /\ UNCHANGED <<current_task_id, issued, created, nPlans>>

\* a scan that takes the last pending task after idx instead of the first
NextPending_Last(ts, idx) ==
    IF \E i \in (idx + 1)..Len(ts) : ts[i].status = "pending"
    THEN CHOOSE i \in (idx + 1)..Len(ts) :
            /\ ts[i].status = "pending"
            /\ \A j \in (i + 1)..Len(ts) : ts[j].status # "pending"
    ELSE 0

\* the scan of complete_current_task: the position of the first pending task
\* after position idx of the dict order, 0 when there is none
NextPending(ts, idx) ==
    IF \E i \in (idx + 1)..Len(ts) : ts[i].status = "pending"
    THEN CHOOSE i \in (idx + 1)..Len(ts) :
            /\ ts[i].status = "pending"
            /\ \A j \in (idx + 1)..(i - 1) : ts[j].status # "pending"
    ELSE 0

complete_current_task(result) ==
    IF current_task_id = 0
    THEN /\ ret' = Ret("complete_current_task", result, <<>>, 0, TRUE)
         /\ summary' = NoSummary
         /\ last_command' = <<>>
         /\ UNCHANGED <<tasks, current_task_id, issued, created, nPlans, nUpdates>>
    ELSE LET ts == UpdateStatus(tasks, current_task_id, "completed", result, None)
             current_idx == IndexOf(ts, current_task_id)
             nxt == NextPending(ts, current_idx)
             next_id == IF nxt = 0 THEN 0 ELSE ts[nxt].id
         IN  /\ tasks' = ts
             /\ current_task_id' = next_id
             /\ ret' = Ret("complete_current_task", result, <<>>, next_id, TRUE)
             /\ summary' = NoSummary
             /\ last_command' = <<>>
             /\ UNCHANGED <<issued, created, nPlans, nUpdates>>

\* the ids clear_completed_tasks collects
CompletedIds(ts) ==
    {ts[i].id : i \in {j \in 1..Len(ts) : ts[j].status = "completed"}}

\* a clear that leaves the pointer alone
ClearedCurrent_Kept(ts, cur) == cur

\* lines 208-210: the pointer is reset when the task it names is deleted
ClearedCurrent(ts, cur) == IF cur \in CompletedIds(ts) THEN 0 ELSE cur

clear_completed_tasks ==
    /\ tasks' = SelectSeq(tasks, LAMBDA t : t.id \notin CompletedIds(tasks))
    /\ current_task_id' = ClearedCurrent(tasks, current_task_id)
    /\ ret' = Ret("clear_completed_tasks", None, <<>>, 0, TRUE)
    /\ summary' = NoSummary
    /\ last_command' = <<>>
    /\ UNCHANGED <<issued, created, nPlans, nUpdates>>

\* the metadata of a Task made without one (None), and the dict {}
NoMetadata == [none |-> TRUE]
EmptyDict == [k \in {} |-> k]

\* `self.metadata or {}`: None and the empty dict are falsy
OrEmptyDict(metadata) ==
    IF metadata = NoMetadata \/ metadata = EmptyDict THEN EmptyDict ELSE metadata

\* Task.to_dict: the fields of the dataclass, the status by its value (a
\* status is held as the value of its TaskStatus member throughout)
to_dict(t) ==
    [id |-> t.id, description |-> t.description, status |-> t.status,
     result |-> t.result, error |-> t.error, metadata |-> OrEmptyDict(t.metadata)]

\* a dict without a 'status' key, and status values that are no TaskStatus
NoKey == "<no key>"
ForeignStatus == {"done", None}

\* a from_dict that takes any status value
FromDictRaises_Never(data) == FALSE

\* Task.from_dict raises: TaskStatus(value) of a value that no member has
FromDictRaises(data) == data.status # NoKey /\ data.status \notin TaskStatus

\* Task.from_dict when it returns: a new Task object obj
from_dict(data, obj) ==
    [id |-> data.id,
     description |-> data.description,
     status |-> IF data.status = NoKey THEN "pending" ELSE data.status,
     result |-> data.result,
     error |-> data.error,
     metadata |-> data.metadata,
     obj |-> obj,
     plan |-> 0]

\* sum(1 for t in self.tasks.values() if t.status == status)
CountStatus(ts, status) ==
    Cardinality({i \in 1..Len(ts) : ts[i].status = status})

\* the dict get_status_summary returns
StatusSummary(ts, cur) ==
    [total_tasks |-> Len(ts),
     completed |-> CountStatus(ts, "completed"),
     in_progress |-> CountStatus(ts, "in_progress"),
     pending |-> CountStatus(ts, "pending"),
     current_task |-> cur,
     tasks |-> [i \in 1..Len(ts) |-> to_dict(ts[i])]]

\* a summary that also purges the completed tasks it has counted
get_status_summary_Purging ==
    /\ summary' = StatusSummary(tasks, current_task_id)
    /\ last_command' = <<>>
    /\ ret' = Ret("get_status_summary", None, <<>>, 0, TRUE)
    /\ tasks' = SelectSeq(tasks, LAMBDA t : t.status # "completed")
    /\ UNCHANGED <<current_task_id, issued, created, nPlans, nUpdates>>

get_status_summary ==
    /\ summary' = StatusSummary(tasks, current_task_id)
    /\ last_command' = <<>>
    /\ ret' = Ret("get_status_summary", None, <<>>, 0, TRUE)
    /\ UNCHANGED <<tasks, current_task_id, issued, created, nPlans, nUpdates>>

----------------------------------------------------------------------------
(* VoiceIDE *)

\* current_task = None
NoTask ==
    [id |-> 0, description |-> <<>>, status |-> None, created_at |-> None,
     started_at |-> None, completed_at |-> None, result |-> None, error |-> None,
     metadata |-> [type |-> None, complexity |-> None], uid |-> 0]

\* a status text: f-string pieces around the formatted value
StatusText(prefix, body, suffix) == [prefix |-> prefix, body |-> body, suffix |-> suffix]

\* no prompt shown and no line read yet
NoRepl ==
    [status |-> StatusText("", <<>>, ""), line |-> <<>>, how |-> "none",
     asked |-> FALSE, answer |-> <<>>, lines |-> 0, calls |-> 0]

\* the messages of the exceptions the try block of process_next_task can raise:
\* while the task is worked on (220-236), or at the print after it was marked
\* completed (253-255)
WorkErrors == {"work failed"}
PrintErrors == {"print failed"}

estimate_complexity(d) ==
    LET description == lower(d)
    IN  IF \E w \in {Str_simple, Str_add, Str_update, Str_fix} : Contains(description, w)
        THEN "low"
        ELSE IF \E w \in {Str_implement, Str_create, Str_refactor} :
                    Contains(description, w)
        THEN "medium"
        ELSE IF \E w \in {Str_rewrite, Str_migrate, Str_redesign} :
                    Contains(description, w)
        THEN "high"
        ELSE "unknown"

\* the n of f"task_{len(self.history) + 1}"
OrchTaskId(h) == Len(h) + 1

\* VoiceIDE.create_task; uid is the identity of the dict object
OrchCreateTask(description, h, uid) ==
    [id |-> OrchTaskId(h),
     description |-> description,
     status |-> "pending",
     created_at |-> "set",
     started_at |-> None,
     completed_at |-> None,
     result |-> None,
     error |-> None,
     metadata |-> [type |-> "code_change",
                   complexity |-> estimate_complexity(description)],
     uid |-> uid]

UserInput(command) ==
    [type |-> "user_input", command |-> command, task |-> NoTask, error |-> None]

TaskCompleted(task) ==
    [type |-> "task_completed", command |-> <<>>, task |-> task, error |-> None]

\* a failure event that drops the message
TaskFailed_NoError(task, e) ==
    [type |-> "task_failed", command |-> <<>>, task |-> task, error |-> None]

TaskFailed(task, e) ==
    [type |-> "task_failed", command |-> <<>>, task |-> task, error |-> e]

\* self.history[-100:]
HistoryKeep == 100

LastN(seq, n) ==
    IF Len(seq) <= n THEN seq ELSE SubSeq(seq, Len(seq) - n + 1, Len(seq))

\* json.dump of a task dict: the document holds the fields, not the object
DumpTask(t) ==
    [id |-> t.id, description |-> t.description, status |-> t.status,
     created_at |-> t.created_at, started_at |-> t.started_at,
     completed_at |-> t.completed_at, result |-> t.result, error |-> t.error,
     metadata |-> t.metadata]

\* json.dump of a history entry
DumpEvent(e) ==
    [type |-> e.type, command |-> e.command, task |-> DumpTask(e.task),
     error |-> e.error]

DumpQueue(q) == [i \in 1..Len(q) |-> DumpTask(q[i])]
DumpHistory(h) == [i \in 1..Len(h) |-> DumpEvent(h[i])]

\* a save that keeps the oldest entries: self.history[:100]
SavedHistory_First(h) == DumpHistory(SubSeq(h, 1, IF Len(h) <= HistoryKeep THEN Len(h) ELSE HistoryKeep))

\* a save that still counts the task being worked on as queued
SavedQueue_WithCurrent(q) ==
    DumpQueue(IF current_task = NoTask THEN q ELSE <<current_task>> \o q)

\* VoiceIDE.save_state, the two documents it writes
SavedQueue(q) == DumpQueue(q)
SavedHistory(h) == DumpHistory(LastN(h, HistoryKeep))

\* a file of the workspace: not there, there but not a JSON document (cut
\* short or partly written), or a JSON document
Absent == [state |-> "absent", doc |-> <<>>]
Malformed == [state |-> "malformed", doc |-> <<>>]
Document(doc) == [state |-> "ok", doc |-> doc]

\* how a save_state call ends: "ok", or the statement of its try block that
\* raises: open(tasks_file, 'w'), the dump into it, open(history_file, 'w'),
\* the dump into it
SaveFailures == {"open_tasks", "dump_tasks", "open_history", "dump_history"}
SaveOutcomes == {"ok"} \cup SaveFailures

\* a save_state that returns without writing
SavedFiles_NoWrite(o, q, h, tf, hf) == <<tf, hf>>

\* save_state: the two files after a call that ends as o, given the files
\* tf and hf before it.  open(.., 'w') cuts the file to nothing before the
\* dump writes into it.
SavedFiles(o, q, h, tf, hf) ==
    CASE o = "open_tasks"   -> <<tf, hf>>
      [] o = "dump_tasks"   -> <<Malformed, hf>>
      [] o = "open_history" -> <<Document(SavedQueue(q)), hf>>
      [] o = "dump_history" -> <<Document(SavedQueue(q)), Malformed>>
      [] OTHER              -> <<Document(SavedQueue(q)), Document(SavedHistory(h))>>

\* json.load of a task dict makes a new dict object, uid
LoadTask(d, uid) ==
    [id |-> d.id, description |-> d.description, status |-> d.status,
     created_at |-> d.created_at, started_at |-> d.started_at,
     completed_at |-> d.completed_at, result |-> d.result, error |-> d.error,
     metadata |-> d.metadata, uid |-> uid]

\* a load that reads the list back to front
LoadQueue_Reversed(doc) == [i \in 1..Len(doc) |-> LoadTask(doc[Len(doc) + 1 - i], i)]

\* json.load of the queue document: the i-th dict is a new object i
LoadQueue(doc) == [i \in 1..Len(doc) |-> LoadTask(doc[i], i)]

\* json.load of the history document: the task dict of the i-th entry is a
\* new object of its own, -i
LoadHistory(doc) ==
    [i \in 1..Len(doc) |->
        [type |-> doc[i].type, command |-> doc[i].command,
         task |-> LoadTask(doc[i].task, IF doc[i].type = "user_input" THEN 0 ELSE -i),
         error |-> doc[i].error]]

\* VoiceIDE.load_state: task_queue after it.  An absent file is skipped, a
\* malformed one raises into the except clause, which logs.
LoadedQueue(tf, hf) ==
    IF tf.state = "ok" THEN LoadQueue(tf.doc) ELSE <<>>

\* VoiceIDE.load_state: history after it; a malformed tasks.json raises before
\* history.json is looked at
LoadedHistory(tf, hf) ==
    IF tf.state # "malformed" /\ hf.state = "ok" THEN LoadHistory(hf.doc) ELSE <<>>

\* lines 214-216: the popped task becomes current and in progress
MarkStarted(task) == [task EXCEPT !.status = "in_progress", !.started_at = "set"]

\* lines 239-244
MarkCompleted(task) ==
    [task EXCEPT !.status = "completed", !.completed_at = "set",
                 !.result = "Task completed successfully"]

\* VoiceIDE: the tasks held as current task, in the queue and in history entries
Held(cur, q, h) ==
    {t \in ({cur} \cup {q[i] : i \in 1..Len(q)} \cup {h[i].task : i \in 1..Len(h)}) :
        t.uid # 0}

\* a handler that records the error and leaves the status as it was
MarkFailed_KeepStatus(task, e) == [task EXCEPT !.error = e]

\* lines 258-259
MarkFailed(task, e) == [task EXCEPT !.status = "failed", !.error = e]

\* the history entries hold the dict object itself: a change of the object
\* shows in every entry that holds it
Alias(h, task) ==
    [i \in 1..Len(h) |->
        IF h[i].task.uid = task.uid /\ task.uid # 0
        THEN [h[i] EXCEPT !.task = task]
        ELSE h[i]]

\* a finally clause that saves and returns
AfterSave_Return == "idle"

\* what process_next_task does after save_state in its finally clause:
\* it calls itself
AfterSave == "next"

\* VoiceIDE.start, up to the prompt: running is set
Start ==
    /\ pc = "idle"
    /\ ~running
    /\ running' = TRUE
    /\ UNCHANGED <<current_task, task_queue, history, tasks_file, history_file,
                   pc, exc, enqueued, started, raised, nCommands,
                   faults, store_op>>
    /\ UNCHANGED <<plannerVars, repl>>

\* VoiceIDE.process_command up to its call of process_next_task
process_command(command) ==
    LET h == Append(history, UserInput(command))
        task == OrchCreateTask(command, h, Len(enqueued) + 1)
    IN  /\ pc = "idle"
        /\ history' = h
        /\ task_queue' = Append(task_queue, task)
        /\ enqueued' = Append(enqueued, task.uid)
        /\ nCommands' = nCommands + 1
        /\ pc' = IF current_task = NoTask THEN "next" ELSE "idle"
        /\ UNCHANGED <<running, current_task, tasks_file, history_file, exc,
                       started, raised, faults, store_op>>

\* process_next_task, lines 210-216
ProcessNextTask ==
    /\ pc = "next"
    /\ IF task_queue = <<>>
       THEN /\ current_task' = NoTask
            /\ pc' = "idle"
            /\ UNCHANGED <<task_queue, started>>
       ELSE /\ current_task' = MarkStarted(Head(task_queue))
            /\ task_queue' = Tail(task_queue)
            /\ started' = Append(started, Head(task_queue).uid)
            /\ pc' = "work"
    /\ UNCHANGED <<running, history, tasks_file, history_file, exc, enqueued,
                   raised, nCommands,
                   faults, store_op>>
    /\ UNCHANGED <<plannerVars, repl>>

\* lines 218-251: the work is done and the task marked completed and logged
WorkCompletes ==
    /\ pc = "work"
    /\ running
    /\ current_task' = MarkCompleted(current_task)
    /\ history' = Append(history, TaskCompleted(MarkCompleted(current_task)))
    /\ pc' = "print"
    /\ UNCHANGED <<running, task_queue, tasks_file, history_file, exc, enqueued,
                   started, raised, nCommands,
                   faults, store_op>>
    /\ UNCHANGED <<plannerVars, repl>>

\* lines 235-236: `if not self.running: return`, which runs the finally clause
WorkReturns ==
    /\ pc = "work"
    /\ ~running
    /\ pc' = "finally"
    /\ UNCHANGED <<running, current_task, task_queue, history, tasks_file,
                   history_file, exc, enqueued, started, raised, nCommands,
                   faults, store_op>>
    /\ UNCHANGED <<plannerVars, repl>>

\* lines 220-236 raise
WorkRaises ==
    /\ pc = "work"
    /\ \E e \in WorkErrors :
          /\ exc' = e
          /\ raised' = raised \cup {<<current_task.uid, e>>}
    /\ pc' = "except"
    /\ UNCHANGED <<running, current_task, task_queue, history, tasks_file,
                   history_file, enqueued, started, nCommands,
                   faults, store_op>>
    /\ UNCHANGED <<plannerVars, repl>>

\* lines 253-255: the print returns
PrintReturns ==
    /\ pc = "print"
    /\ pc' = "finally"
    /\ UNCHANGED <<running, current_task, task_queue, history, tasks_file,
                   history_file, exc, enqueued, started, raised, nCommands,
                   faults, store_op>>
    /\ UNCHANGED <<plannerVars, repl>>

\* lines 253-255: the print raises
PrintRaises ==
    /\ pc = "print"
    /\ \E e \in PrintErrors :
          /\ exc' = e
          /\ raised' = raised \cup {<<current_task.uid, e>>}
    /\ pc' = "except"
    /\ UNCHANGED <<running, current_task, task_queue, history, tasks_file,
                   history_file, enqueued, started, nCommands,
                   faults, store_op>>
    /\ UNCHANGED <<plannerVars, repl>>

\* lines 257-268
HandleException ==
    /\ pc = "except"
    /\ current_task' = MarkFailed(current_task, exc)
    /\ history' = Append(Alias(history, MarkFailed(current_task, exc)),
                         TaskFailed(MarkFailed(current_task, exc), exc))
    /\ exc' = None
    /\ pc' = "finally"
    /\ UNCHANGED <<running, task_queue, tasks_file, history_file, enqueued,
                   started, raised, nCommands,
                   faults, store_op>>
    /\ UNCHANGED <<plannerVars, repl>>

\* a save_state whose failure leaves process_next_task as an exception
AfterSaveOutcome_Raises(o) == IF o = "ok" THEN AfterSave ELSE "idle"

\* lines 76-77 and 272-273: `except Exception` logs what the save raised, so
\* save_state returns after every outcome and process_next_task is called
AfterSaveOutcome(o) == AfterSave

\* VoiceIDE.save_state ending as o; a failure is one the storage may still cause
save_state(o) ==
    /\ o = "ok" \/ faults > 0
    /\ tasks_file' = SavedFiles(o, task_queue, history, tasks_file, history_file)[1]
    /\ history_file' = SavedFiles(o, task_queue, history, tasks_file, history_file)[2]
    /\ store_op' = o
    /\ faults' = IF o = "ok" THEN faults ELSE faults - 1

\* lines 270-273: save_state, then the call of process_next_task
Finally ==
    /\ pc = "finally"
    /\ \E o \in SaveOutcomes : save_state(o) /\ pc' = AfterSaveOutcome(o)
    /\ UNCHANGED <<running, current_task, task_queue, history, exc, enqueued,
                   started, raised, nCommands>>
    /\ UNCHANGED <<plannerVars, repl>>

\* VoiceIDE.start from `exit` at the prompt to the end of shutdown: running is
\* cleared, the loop ends, the finally clause calls shutdown, which saves; the
\* process ends
Shutdown ==
    /\ pc = "idle"
    /\ running
    /\ running' = FALSE
    /\ \E o \in SaveOutcomes : save_state(o)
    /\ pc' = "stopped"
    /\ UNCHANGED <<current_task, task_queue, history, exc, enqueued, started,
                   raised, nCommands>>
    /\ UNCHANGED <<plannerVars, repl>>

\* main() in a new process: VoiceIDE.__init__, whose setup_workspace calls
\* load_state
Restart ==
    /\ pc = "stopped"
    /\ running' = FALSE
    /\ current_task' = NoTask
    /\ task_queue' = LoadedQueue(tasks_file, history_file)
    /\ history' = LoadedHistory(tasks_file, history_file)
    /\ enqueued' = [i \in 1..Len(LoadedQueue(tasks_file, history_file)) |-> i]
    /\ started' = <<>>
    /\ raised' = {}
    /\ exc' = None
    /\ store_op' = "load"
    /\ pc' = "idle"
    /\ UNCHANGED <<tasks_file, history_file, nCommands, faults>>
    /\ UNCHANGED <<plannerVars, repl>>

----------------------------------------------------------------------------
(* Specifications *)

\* TaskPlanner.__init__
PlannerInit ==
    /\ tasks = <<>>
    /\ current_task_id = 0
    /\ issued = <<>>
    /\ created = 0
    /\ nPlans = 0
    /\ ret = Ret("init", None, <<>>, 0, TRUE)
    /\ nUpdates = 0
    /\ summary = NoSummary
    /\ last_command = <<>>

\* The store a session leaves when n commands were queued behind a first command
\* whose task never left current_task: the history holds the n + 1 inputs, the
\* queue the n pending tasks.
StoredCommand == <<"R", "u", "n">>

RECURSIVE StoredHistory(_)
StoredHistory(n) ==
    IF n = 0 THEN <<>> ELSE Append(StoredHistory(n - 1), UserInput(StoredCommand))

StoredQueue(n) ==
    [i \in 1..n |-> OrchCreateTask(StoredCommand, StoredHistory(i + 1), i)]

\* VoiceIDE.__init__ with load_state: an empty store, or one holding n tasks
OrchInit ==
    /\ running = FALSE
    /\ current_task = NoTask
    /\ \E n \in 0..MaxLoaded :
          /\ task_queue = StoredQueue(n)
          /\ history = IF n = 0 THEN <<>> ELSE StoredHistory(n + 1)
          /\ tasks_file = IF n = 0 THEN Absent ELSE Document(SavedQueue(task_queue))
          /\ history_file = IF n = 0 THEN Absent ELSE Document(SavedHistory(history))
          /\ enqueued = [i \in 1..n |-> i]
    /\ faults = 0
    /\ store_op = "load"
    /\ pc = "idle"
    /\ exc = None
    /\ started = <<>>
    /\ raised = {}
    /\ nCommands = 0
    /\ repl = NoRepl

\* a VoiceIDE constructed on an empty store and left alone
OrchQuiet ==
    /\ running = FALSE
    /\ current_task = NoTask
    /\ task_queue = <<>>
    /\ history = <<>>
    /\ tasks_file = Absent
    /\ history_file = Absent
    /\ enqueued = <<>>
    /\ faults = 0
    /\ store_op = "load"
    /\ pc = "idle"
    /\ exc = None
    /\ started = <<>>
    /\ raised = {}
    /\ nCommands = 0
    /\ repl = NoRepl

Init == PlannerInit /\ OrchQuiet

\* the plan of cmd keeps the planner within n create_task calls
Fits(cmd, n) == created + Len(Template(lower(cmd))) <= n

PlanTasks ==
    /\ \E cmd \in Commands : Fits(cmd, MaxCreated) /\ plan_tasks(cmd)
    /\ UNCHANGED orchVars

PlanTasksU ==
    /\ \E cmd \in Commands : Fits(cmd, MaxUpdCreated) /\ plan_tasks(cmd)
    /\ UNCHANGED orchVars

UpdateTaskStatus ==
    /\ nUpdates < MaxUpdates
    /\ \E task_id \in 1..(Len(tasks) + 1), status \in TaskStatus,
          result \in Results, error \in Errors :
           update_task_status(task_id, status, result, error)
    /\ UNCHANGED orchVars

CompleteCurrentTask ==
    /\ \E result \in Results : complete_current_task(result)
    /\ UNCHANGED orchVars

ClearCompletedTasks == clear_completed_tasks /\ UNCHANGED orchVars

GetStatusSummary == get_status_summary /\ UNCHANGED orchVars

\* a planner driven by plan_tasks, complete_current_task and clear_completed_tasks
PlannerNext ==
    \/ PlanTasks
    \/ CompleteCurrentTask
    \/ ClearCompletedTasks

PlannerSpec == Init /\ [][PlannerNext]_vars

\* a planner driven by plan_tasks and complete_current_task alone
PlanCompleteNext ==
    \/ PlanTasks
    \/ CompleteCurrentTask

PlanCompleteSpec == Init /\ [][PlanCompleteNext]_vars

\* a planner driven by all its operations
PlannerUpdateNext ==
    \/ PlanTasksU
    \/ UpdateTaskStatus
    \/ CompleteCurrentTask
    \/ ClearCompletedTasks
    \/ GetStatusSummary

PlannerUpdateSpec == Init /\ [][PlannerUpdateNext]_vars

PlanTasksR ==
    /\ nPlans < MaxRulePlans
    /\ \E cmd \in RuleCommands : plan_tasks(cmd)
    /\ UNCHANGED orchVars

\* a planner fed the commands that try the rule chain, and asked for its summary
PlanRuleNext ==
    \/ PlanTasksR
    \/ GetStatusSummary

PlanRuleSpec == Init /\ [][PlanRuleNext]_vars

\* a command of four tasks and one of a single task
ClearCommands ==
    { <<"a", "d", "d", " ", "A", "P", "I">>,
      <<"R", "u", "n">> }

PlanTasksC ==
    /\ nPlans < MaxClearPlans
    /\ \E cmd \in ClearCommands : plan_tasks(cmd)
    /\ UNCHANGED orchVars

\* a planner that is given a few plans of any length, completing and clearing
PlanClearNext ==
    \/ PlanTasksC
    \/ CompleteCurrentTask
    \/ ClearCompletedTasks

PlanClearSpec == Init /\ [][PlanClearNext]_vars

\* the Task objects converted: each status, with and without result and
\* error, with a planner's metadata, an empty dict and no metadata
TaskInputs ==
    {[id |-> 1, description |-> d, status |-> s, result |-> r, error |-> e,
      metadata |-> md, obj |-> 1, plan |-> 0] :
        d \in {Label("Write unit tests")}, s \in TaskStatus, r \in Results,
        e \in Errors,
        md \in {NoMetadata, EmptyDict, [type |-> "testing", target |-> "unit_tests"]}}

\* a Task constructed by its caller, outside any planner call
RoundTripInit ==
    /\ tasks \in {<<t>> : t \in TaskInputs}
    /\ current_task_id = 0
    /\ issued = <<>>
    /\ created = 1
    /\ nPlans = 0
    /\ ret = Ret("init", None, <<>>, 0, TRUE)
    /\ nUpdates = 0
    /\ summary = NoSummary
    /\ last_command = <<>>

\* t.to_dict()
ToDict ==
    /\ ret.op = "init"
    /\ ret' = Ret("to_dict", None, <<to_dict(tasks[1])>>, 0, TRUE)
    /\ UNCHANGED <<tasks, current_task_id, issued, created, nPlans, nUpdates,
                   summary, last_command>>
    /\ UNCHANGED orchVars

\* Task.from_dict(data) on the dict to_dict returned, as it is, with a status
\* value that no member has, or without the status key; ret.arg is the status
\* given
FromDict ==
    /\ ret.op = "to_dict"
    /\ \E status \in {ret.list[1].status} \cup ForeignStatus \cup {NoKey} :
          LET data == [ret.list[1] EXCEPT !.status = status]
          IN  ret' = IF FromDictRaises(data)
                     THEN Ret("from_dict", status, <<>>, 0, FALSE)
                     ELSE Ret("from_dict", status, <<from_dict(data, 2)>>, 0, TRUE)
    /\ UNCHANGED <<tasks, current_task_id, issued, created, nPlans, nUpdates,
                   summary, last_command>>
    /\ UNCHANGED orchVars

RoundTripNext ==
    \/ ToDict
    \/ FromDict

RoundTripSpecInit == RoundTripInit /\ OrchQuiet

RoundTripSpec == RoundTripSpecInit /\ [][RoundTripNext]_vars

ProcessCommand ==
    /\ nCommands < MaxCommands
    /\ \E command \in Commands : process_command(command)
    /\ UNCHANGED <<plannerVars, repl>>

\* the steps of process_next_task
Drain ==
    \/ ProcessNextTask
    \/ WorkCompletes
    \/ WorkReturns
    \/ WorkRaises
    \/ PrintReturns
    \/ PrintRaises
    \/ HandleException
    \/ Finally

OrchNext ==
    \/ Start
    \/ ProcessCommand
    \/ ProcessNextTask
    \/ WorkCompletes
    \/ WorkReturns
    \/ WorkRaises
    \/ PrintReturns
    \/ PrintRaises
    \/ HandleException
    \/ Finally

OrchSpecInit == PlannerInit /\ OrchInit

OrchSpec == OrchSpecInit /\ [][OrchNext]_vars

\* process_next_task runs on the one thread of the program: once called, each of
\* its steps is taken
FairOrchSpec == OrchSpec /\ WF_vars(Drain)

\* the command of the i-th input of a long session: i in three digits
Digits == <<"0", "1", "2", "3", "4", "5", "6", "7", "8", "9">>

NumberedCommand(i) ==
    <<Digits[((i \div 100) % 10) + 1], Digits[((i \div 10) % 10) + 1], Digits[(i % 10) + 1]>>

\* the history after m process_command calls made while running is False:
\* each logs its input, and its task is left by `if not self.running: return`
LongHistory(m) == [i \in 1..m |-> UserInput(NumberedCommand(i))]

\* VoiceIDE.__init__ on the store as it is
Constructed ==
    /\ running = FALSE
    /\ current_task = NoTask
    /\ task_queue = LoadedQueue(tasks_file, history_file)
    /\ history = LoadedHistory(tasks_file, history_file)
    /\ enqueued = [i \in 1..Len(task_queue) |-> i]
    /\ pc = "idle"
    /\ exc = None
    /\ started = <<>>
    /\ raised = {}
    /\ nCommands = 0
    /\ store_op = "load"
    /\ repl = NoRepl

\* the history a session with n queued commands logged (none when n = 0)
StoredEvents(n) == IF n = 0 THEN <<>> ELSE StoredHistory(n + 1)

\* A VoiceIDE constructed on a store whose two files are each absent,
\* malformed or the document a session left
StoreInit ==
    /\ \E n \in 0..MaxLoaded :
          /\ tasks_file \in {Absent, Malformed, Document(SavedQueue(StoredQueue(n)))}
          /\ history_file \in {Absent, Malformed, Document(SavedHistory(StoredEvents(n)))}
    /\ Constructed
    /\ faults = MaxFaults

\* the history lengths tried: none, around what save_state keeps, and the most
HistoryLengths ==
    {m \in 0..(HistoryKeep + MaxExcess) :
        \/ m = 0
        \/ m >= HistoryKeep - 1 /\ m <= HistoryKeep + 1
        \/ m = HistoryKeep + MaxExcess}

\* A VoiceIDE with a long history: one that took m commands before start was
\* called, or one constructed on the store of a session that left n tasks
\* queued and a full history document
HistoryInit ==
    /\ \/ /\ \E m \in HistoryLengths :
                /\ history = LongHistory(m)
                /\ enqueued = [i \in 1..m |-> i]
                /\ started = [i \in 1..m |-> i]
                /\ tasks_file = IF m = 0 THEN Absent ELSE Document(SavedQueue(<<>>))
                /\ history_file = IF m = 0 THEN Absent ELSE Document(SavedHistory(history))
                /\ store_op = IF m = 0 THEN "load" ELSE "ok"
          /\ running = FALSE
          /\ current_task = NoTask
          /\ task_queue = <<>>
          /\ pc = "idle"
          /\ exc = None
          /\ raised = {}
          /\ nCommands = 0
          /\ repl = NoRepl
       \/ /\ \E n \in 1..MaxLoaded :
                /\ tasks_file = Document(SavedQueue(StoredQueue(n)))
                /\ history_file = Document(SavedHistory(LongHistory(HistoryKeep)))
          /\ Constructed
    /\ faults = 0

ProcessCommandS ==
    /\ nCommands < MaxStoreCommands
    /\ process_command(StoredCommand)
    /\ UNCHANGED <<plannerVars, repl>>

\* sessions of a VoiceIDE on one store: start, commands, shutdown, a new process
StoreNext ==
    \/ Start
    \/ ProcessCommandS
    \/ ProcessNextTask
    \/ WorkCompletes
    \/ WorkReturns
    \/ WorkRaises
    \/ PrintReturns
    \/ PrintRaises
    \/ HandleException
    \/ Finally
    \/ Shutdown
    \/ Restart

StoreSpecInit == PlannerInit /\ StoreInit

StoreSpec == StoreSpecInit /\ [][StoreNext]_vars

HistorySpecInit == PlannerInit /\ HistoryInit

HistorySpec == HistorySpecInit /\ [][StoreNext]_vars

ProcessCommandI ==
    /\ nCommands < MaxIdCommands
    /\ running
    /\ process_command(StoredCommand)
    /\ UNCHANGED <<plannerVars, repl>>

\* sessions on one store whose tasks complete: start, commands, exit, a new
\* process
IdNext ==
    \/ Start
    \/ ProcessCommandI
    \/ ProcessNextTask
    \/ WorkCompletes
    \/ PrintReturns
    \/ Finally
    \/ Shutdown
    \/ Restart

IdSpec == HistorySpecInit /\ [][IdNext]_vars

----------------------------------------------------------------------------
(* The prompt loop of VoiceIDE.start *)

Str_exit == <<"e", "x", "i", "t">>
Str_quit == <<"q", "u", "i", "t">>
Str_help == <<"h", "e", "l", "p">>
Str_qmark == <<"?">>
Str_status == <<"s", "t", "a", "t", "u", "s">>
Str_whats == <<"w", "h", "a", "t", "'", "s", " ", "g", "o", "i", "n", "g", " ", "o", "n">>
Str_clear == <<"c", "l", "e", "a", "r">>
Str_cls == <<"c", "l", "s">>
Str_y == <<"y">>

\* the lines typed at the prompt: nothing, blanks, each control word and alias
\* in some case, with blanks around, and commands, one of them longer than the
\* cut of get_status and one that starts with a control word
Lines ==
    { <<>>,
      <<" ", " ">>,
      <<"E", "X", "I", "T">>,
      <<" ", "q", "u", "i", "t", " ">>,
      <<"H", "e", "l", "p">>,
      <<"?">>,
      <<"S", "t", "a", "t", "u", "s">>,
      <<"W", "h", "a", "t", "'", "s", " ", "g", "o", "i", "n", "g", " ", "o", "n">>,
      <<"C", "L", "E", "A", "R">>,
      <<"c", "l", "s">>,
      <<"R", "u", "n">>,
      <<"e", "x", "i", "t", " ", "n", "o", "w">>,
      <<"r", "e", "f", "a", "c", "t", "o", "r", " ", "t", "h", "e", " ",
        "l", "o", "g", "i", "n", " ", "p", "a", "g", "e">> }

\* the answers typed to the exit question: Enter alone, y, Y, n, yes
Answers == { <<>>, <<"y">>, <<"Y">>, <<"n">>, <<"y", "e", "s">> }

\* the exit question ended by end of input (EOFError) or by Ctrl-C
\* (KeyboardInterrupt) instead of an answer
ConfirmBreaks == { <<"EOFError">>, <<"KeyboardInterrupt">> }

RECURSIVE LStrip(_)
LStrip(s) == IF s # <<>> /\ Head(s) = " " THEN LStrip(Tail(s)) ELSE s

RECURSIVE RStrip(_)
RStrip(s) ==
    IF s # <<>> /\ s[Len(s)] = " " THEN RStrip(SubSeq(s, 1, Len(s) - 1)) ELSE s

\* str.strip()
Strip(s) == RStrip(LStrip(s))

\* s[:n]
Cut(s, n) == SubSeq(s, 1, IF Len(s) < n THEN Len(s) ELSE n)

\* str(n) for n >= 0
RECURSIVE Decimal(_)
Decimal(n) ==
    IF n < 10 THEN <<Digits[n + 1]>>
    ELSE Append(Decimal(n \div 10), Digits[(n % 10) + 1])

\* a status that shows the whole description
get_status_Whole(cur, q) ==
    IF cur # NoTask
    THEN StatusText("working on: ", cur.description, "...")
    ELSE IF q # <<>>
    THEN StatusText("", Decimal(Len(q)), " tasks queued")
    ELSE StatusText("", <<>>, "ready")

\* VoiceIDE.get_status
get_status(cur, q) ==
    IF cur # NoTask
    THEN StatusText("working on: ", Cut(cur.description, 20), "...")
    ELSE IF q # <<>>
    THEN StatusText("", Decimal(Len(q)), " tasks queued")
    ELSE StatusText("", <<>>, "ready")

\* a loop that compares the line as it was typed
Dispatch_AsTyped(user_input) ==
    IF user_input = <<>> THEN "empty"
    ELSE IF user_input \in {Str_exit, Str_quit} THEN "exit"
    ELSE IF user_input \in {Str_help, Str_qmark} THEN "help"
    ELSE IF user_input \in {Str_status, Str_whats} THEN "status"
    ELSE IF user_input \in {Str_clear, Str_cls} THEN "clear"
    ELSE "command"

\* start, lines 106-129: which branch of the loop body takes the stripped line
Dispatch(user_input) ==
    IF user_input = <<>> THEN "empty"
    ELSE IF lower(user_input) \in {Str_exit, Str_quit} THEN "exit"
    ELSE IF lower(user_input) \in {Str_help, Str_qmark} THEN "help"
    ELSE IF lower(user_input) \in {Str_status, Str_whats} THEN "status"
    ELSE IF lower(user_input) \in {Str_clear, Str_cls} THEN "clear"
    ELSE "command"

\* whether confirm_exit asks its question
Asks(cur, q) == q # <<>> \/ cur # NoTask

\* an exit that is never held back
confirm_exit_Always(cur, q, answer) == TRUE

\* VoiceIDE.confirm_exit, given what the user answers when asked
confirm_exit(cur, q, answer) ==
    IF Asks(cur, q) THEN lower(answer) = Str_y ELSE TRUE

\* a start that calls shutdown after the loop, outside any finally clause
AfterLoop_NoFinally(how) == IF how = "escape" THEN "stopped" ELSE "shutdown"

\* start, lines 139-142: however the loop ends, `finally: self.shutdown()`
AfterLoop(how) == "shutdown"

\* one turn of the loop of start (lines 99-129) on a line read at the prompt:
\* the status for the prompt, the line, and the branch that handles it, up to
\* the call of process_next_task when the line is a command
ReadLine ==
    /\ pc = "idle"
    /\ running
    /\ repl.lines < MaxLines
    /\ \E line \in Lines, answer \in Answers :
          LET user_input == Strip(line)
              how == Dispatch(user_input)
              asked == how = "exit" /\ Asks(current_task, task_queue)
              stop == how = "exit" /\ confirm_exit(current_task, task_queue, answer)
          IN  /\ ~asked => answer = <<>>
              /\ repl' = [repl EXCEPT !.status = get_status(current_task, task_queue),
                                      !.line = line,
                                      !.how = how,
                                      !.asked = asked,
                                      !.answer = answer,
                                      !.lines = @ + 1]
              /\ IF how = "command"
                 THEN process_command(user_input)
                 ELSE /\ running' = ~stop
                      /\ pc' = IF stop THEN AfterLoop(how) ELSE "idle"
                      /\ UNCHANGED <<current_task, task_queue, history, tasks_file,
                                     history_file, exc, enqueued, started, raised,
                                     nCommands, faults, store_op>>
    /\ UNCHANGED plannerVars

\* Ctrl-C at the prompt (lines 131-134): confirm_exit, whose question may
\* itself be ended by end of input or Ctrl-C, which leaves the loop
Interrupt ==
    /\ pc = "idle"
    /\ running
    /\ repl.lines < MaxLines
    /\ \E answer \in Answers \cup ConfirmBreaks :
          LET asked == Asks(current_task, task_queue)
              how == IF answer \in ConfirmBreaks THEN "escape" ELSE "interrupt"
              stop == how = "escape" \/ confirm_exit(current_task, task_queue, answer)
          IN  /\ ~asked => answer = <<>>
              /\ repl' = [repl EXCEPT !.status = get_status(current_task, task_queue),
                                      !.line = <<>>,
                                      !.how = how,
                                      !.asked = asked,
                                      !.answer = answer,
                                      !.lines = @ + 1]
              /\ running' = IF how = "escape" THEN running ELSE ~stop
              /\ pc' = IF stop THEN AfterLoop(how) ELSE "idle"
    /\ UNCHANGED <<current_task, task_queue, history, tasks_file, history_file, exc,
                   enqueued, started, raised, nCommands, faults, store_op>>
    /\ UNCHANGED plannerVars

\* VoiceIDE.shutdown: save_state, then the summary; start returns
shutdown ==
    /\ pc = "shutdown"
    /\ \E o \in SaveOutcomes : save_state(o)
    /\ pc' = "stopped"
    /\ UNCHANGED <<running, current_task, task_queue, history, exc, enqueued,
                   started, raised, nCommands, repl>>
    /\ UNCHANGED plannerVars

\* get_status called on the instance in whatever state it is
GetStatus ==
    /\ repl.calls < MaxStatusCalls
    /\ repl' = [repl EXCEPT !.status = get_status(current_task, task_queue),
                            !.calls = @ + 1]
    /\ UNCHANGED <<running, current_task, task_queue, history, tasks_file,
                   history_file, pc, exc, enqueued, started, raised, nCommands,
                   faults, store_op>>
    /\ UNCHANGED plannerVars

\* a session at the prompt: start, lines and interrupts, the drains of the
\* commands with every task completing, shutdown
ReplNext ==
    \/ Start
    \/ ReadLine
    \/ Interrupt
    \/ ProcessNextTask
    \/ WorkCompletes
    \/ PrintReturns
    \/ Finally
    \/ shutdown
    \/ GetStatus

ReplSpec == OrchSpecInit /\ [][ReplNext]_vars

\* sessions of a VoiceIDE that starts on an empty store: commands and their
\* drains, exit, a new process
EmptyStoreNext ==
    \/ Start
    \/ ProcessCommand
    \/ ProcessNextTask
    \/ WorkCompletes
    \/ WorkReturns
    \/ WorkRaises
    \/ PrintReturns
    \/ PrintRaises
    \/ HandleException
    \/ Finally
    \/ Shutdown
    \/ Restart

EmptyStoreSpec == Init /\ [][EmptyStoreNext]_vars

Next == OrchNext

Spec == OrchSpec

----------------------------------------------------------------------------
(* Helpers of the properties *)

Distinct(seq) == \A i, j \in 1..Len(seq) : i # j => seq[i] # seq[j]

Ids(list) == [i \in 1..Len(list) |-> list[i].id]

\* the task objects of a store
Objs(ts) == {ts[i].obj : i \in 1..Len(ts)}

ByObj(ts, o) == ts[CHOOSE i \in 1..Len(ts) : ts[i].obj = o]

\* the step is a call of the planner operation op
Called(op) == ret'.op = op

InProgressCount(ts) == Cardinality({i \in 1..Len(ts) : ts[i].status = "in_progress"})

----------------------------------------------------------------------------
(* C1: every id create_task hands out differs from every id the planner
   handed out before, and the tasks one plan_tasks call returns have pairwise
   distinct ids. *)
C1_IdsNeverReused ==
    /\ Distinct(issued)
    /\ ret.op = "plan_tasks" => Distinct(Ids(ret.list))

(* C3: at most one task of the planner's task set has status IN_PROGRESS. *)
C3_AtMostOneInProgress == InProgressCount(tasks) <= 1

(* C7: complete_current_task, called while a current task c is set, marks c
   completed with the given result, makes current the first pending task
   created after c and returns it, or sets current to none and returns none
   when no pending task was created after c. *)
C7_CompleteAdvancesInCreationOrder ==
    [][(Called("complete_current_task") /\ current_task_id # 0) =>
        LET c == tasks[IndexOf(tasks, current_task_id)]
            after == {o \in Objs(tasks') :
                        /\ o > c.obj
                        /\ ByObj(tasks', o).status = "pending"}
            first == CHOOSE o \in after : \A p \in after : o <= p
        IN  /\ c.obj \in Objs(tasks')
            /\ ByObj(tasks', c.obj).status = "completed"
            /\ ByObj(tasks', c.obj).result = ret'.arg
            /\ IF after = {}
               THEN current_task_id' = 0 /\ ret'.id = 0
               ELSE /\ current_task_id' = ByObj(tasks', first).id
                    /\ ret'.id = ByObj(tasks', first).id
    ]_vars

(* C8: complete_current_task never completes a task while a task created
   earlier is still pending. *)
C8_CompletedInCreationOrder ==
    [][(Called("complete_current_task") /\ current_task_id # 0) =>
        LET c == tasks[IndexOf(tasks, current_task_id)]
        IN  \A i \in 1..Len(tasks) :
                tasks[i].obj < c.obj => tasks[i].status # "pending"
    ]_vars

(* C8 as amended: complete_current_task never completes a task while a task
   created earlier by the same plan_tasks call is still pending. *)
C8_CompletedInCreationOrderWithinPlan ==
    [][(Called("complete_current_task") /\ current_task_id # 0) =>
        LET c == tasks[IndexOf(tasks, current_task_id)]
        IN  \A i \in 1..Len(tasks) :
                (tasks[i].obj < c.obj /\ tasks[i].plan = c.plan)
                    => tasks[i].status # "pending"
    ]_vars

\* complete_current_task has just completed a later task of a plan, with the
\* plan's earlier tasks completed and a task of an earlier plan still pending
C8_Witness ==
    /\ ret.op = "complete_current_task"
    /\ \E i, j, k \in 1..Len(tasks) :
          /\ tasks[i].plan = tasks[j].plan
          /\ tasks[i].obj < tasks[j].obj
          /\ tasks[i].status = "completed"
          /\ tasks[j].status = "completed"
          /\ tasks[k].plan < tasks[i].plan
          /\ tasks[k].status = "pending"
          /\ current_task_id = tasks[j].id + 1

\* the statuses of the held tasks never go back
Forward(before, after) ==
    /\ before # "pending" => after # "pending"
    /\ before \in {"completed", "failed"} => after = before

(* C9: the status of a task never returns to pending once it has left pending,
   and never changes once it is completed or failed, under the operations of
   the planner and of the orchestrator. *)
C9_StatusOnlyMovesForward ==
    [][/\ \A o \in Objs(tasks) \cap Objs(tasks') :
              Forward(ByObj(tasks, o).status, ByObj(tasks', o).status)
       /\ \A t \in Held(current_task, task_queue, history) :
              \A u \in Held(current_task', task_queue', history') :
                  t.uid = u.uid => Forward(t.status, u.status)
    ]_vars

\* at most one of result and error, neither before the task has ended
ResultErrorOk(t) ==
    /\ ~(t.result # None /\ t.error # None)
    /\ t.status \in {"pending", "in_progress"} => (t.result = None /\ t.error = None)

(* C10: every task held by the planner or by the orchestrator has at most one
   of result and error set, and neither while it is pending or in progress. *)
C10_ResultErrorExclusive ==
    /\ \A i \in 1..Len(tasks) : ResultErrorOk(tasks[i])
    /\ \A t \in Held(current_task, task_queue, history) : ResultErrorOk(t)

----------------------------------------------------------------------------
(* Properties of the VoiceIDE drain *)

HeldNow == Held(current_task, task_queue, history)

InProgressUids == {t.uid : t \in {x \in HeldNow : x.status = "in_progress"}}

Events(type, uid) ==
    {i \in 1..Len(history) : history[i].type = type /\ history[i].task.uid = uid}

HasTerminal(uid) == Events("task_completed", uid) \cup Events("task_failed", uid) # {}

QueueUids == [i \in 1..Len(task_queue) |-> task_queue[i].uid]

(* C2: at every point of a drain, at most one task among current_task,
   task_queue and the tasks recorded in history is in progress. *)
C2_DrainAtMostOneInProgress == Cardinality(InProgressUids) <= 1

\* a task is in progress with another one queued behind it, after an earlier
\* task of the same drain failed
C2_Witness ==
    /\ pc = "work"
    /\ current_task.status = "in_progress"
    /\ task_queue # <<>>
    /\ \E i \in 1..Len(history) : history[i].type = "task_failed"

C5_FailureRecordedDrainContinues ==
    \A r \in raised :
        (pc = "except" /\ current_task.uid = r[1])
        \/ /\ Cardinality(Events("task_failed", r[1])) = 1
           /\ \A i \in Events("task_failed", r[1]) :
                 /\ history[i].task.status = "failed"
                 /\ history[i].task.error = r[2]
                 /\ history[i].error = r[2]
           /\ pc = "idle" => task_queue = <<>>
           /\ (started # <<>> /\ started[Len(started)] = r[1])
                 => pc \in {"finally", "next", "idle"}

\* the task after a failed one is being worked on
C5_Witness ==
    /\ pc = "work"
    /\ \E r \in raised :
          /\ r[1] # current_task.uid
          /\ Events("task_failed", r[1]) # {}
          /\ Len(started) >= 2
          /\ started[Len(started) - 1] = r[1]

(* C6: tasks are started in the order in which they were appended to
   task_queue, the queue is never reordered, and each task has its terminal
   history event before the task behind it is started. *)
C6_FifoWithTerminalEvents ==
    /\ started = SubSeq(enqueued, 1, Len(started))
    /\ QueueUids = SubSeq(enqueued, Len(started) + 1, Len(enqueued))
    /\ \A i \in 1..(Len(started) - 1) : HasTerminal(started[i])

----------------------------------------------------------------------------
(* Claims C11-C13: the planner's failure, read and deletion paths *)

\* C11: update_task_status called with an id that is not a key of the task
\* store returns False and leaves every task and the current-task pointer as
\* they were.
C11_UpdateOfAbsentIdIsNoOp ==
    [][(Called("update_task_status") /\ ~HasKey(tasks, ret'.id))
         => /\ ret'.ok = FALSE
            /\ tasks' = tasks
            /\ current_task_id' = current_task_id]_vars

\* an update of an absent id has been refused while tasks were stored
C11_Witness ==
    /\ ret.op = "update_task_status"
    /\ ret.ok = FALSE
    /\ tasks # <<>>
    /\ ~HasKey(tasks, ret.id)

\* C12: get_status_summary changes neither the task store nor the current
\* pointer, and a call that directly follows another call returns an equal
\* dict: same counts, same current task id, same task snapshot in the same order.
C12_SummaryReadOnlyAndRepeatable ==
    [][Called("get_status_summary")
         => /\ tasks' = tasks
            /\ current_task_id' = current_task_id
            /\ (ret.op = "get_status_summary" => summary' = summary)]_vars

\* a summary has been taken of a store that holds a completed task and a
\* current task
C12_Witness ==
    /\ ret.op = "get_status_summary"
    /\ summary.completed > 0
    /\ summary.total_tasks > summary.completed
    /\ summary.current_task # 0

\* the task objects in the store, as the pairs of key and object
Entries(ts) == {<<ts[i].id, ts[i].obj>> : i \in 1..Len(ts)}

\* C13: clear_completed_tasks removes exactly the completed tasks, leaves the
\* others as they were and clears the current pointer exactly when the current
\* task was removed; no other operation removes or replaces a task that is in
\* the store.
C13_OnlyClearDeletes ==
    [][/\ Called("clear_completed_tasks")
            => /\ tasks' = SelectSeq(tasks, LAMBDA t : t.status # "completed")
               /\ current_task_id' =
                     IF \E i \in 1..Len(tasks) :
                           /\ tasks[i].id = current_task_id
                           /\ tasks[i].status = "completed"
                     THEN 0 ELSE current_task_id
       /\ ~Called("clear_completed_tasks") => Entries(tasks) \subseteq Entries(tasks')]_vars

----------------------------------------------------------------------------
(* Claims C14-C18: the store *)

\* the fields of a task dict, whichever object holds them
Fields(t) == [f \in (DOMAIN t) \ {"uid"} |-> t[f]]

\* the fields of a history entry
EventFields(e) ==
    [type |-> e.type, command |-> e.command, task |-> Fields(e.task), error |-> e.error]

QueueFields(q) == [i \in 1..Len(q) |-> Fields(q[i])]
HistoryFields(h) == [i \in 1..Len(h) |-> EventFields(h[i])]

Min(a, b) == IF a <= b THEN a ELSE b

\* the last min(Len(h), HistoryKeep) entries of h, oldest first
Recent(h) ==
    [i \in 1..Min(Len(h), HistoryKeep) |-> h[Len(h) - Min(Len(h), HistoryKeep) + i]]

\* a step that is a call of save_state: the finally clause of
\* process_next_task, or shutdown
SaveStep == pc = "finally" \/ (pc = "idle" /\ pc' = "stopped")

\* a step that is the load_state of a new process
LoadStep == pc = "stopped" /\ pc' = "idle"

\* C14: a successful save_state writes the last min(n, 100) entries of a
\* history of n entries, in their order, and leaves the history in memory as
\* long as it was; a load after the save yields those entries; no step of a
\* session shortens the history or changes which inputs it has logged.
C14_SaveKeepsLastHundred ==
    [][/\ (SaveStep /\ store_op' = "ok")
            => /\ history' = history
               /\ history_file'.state = "ok"
               /\ history_file'.doc = HistoryFields(Recent(history))
       /\ (LoadStep /\ store_op = "ok")
            => HistoryFields(history') = HistoryFields(Recent(history))
       /\ ~LoadStep
            => /\ Len(history') >= Len(history)
               /\ \A i \in 1..Len(history) :
                     /\ history'[i].type = history[i].type
                     /\ history'[i].command = history[i].command]_vars

\* a history of the longest length was saved at shutdown and a new process has
\* loaded its last 100 entries
C14_Witness ==
    /\ store_op = "load"
    /\ pc = "idle"
    /\ Len(history) = HistoryKeep
    /\ history[1].command = NumberedCommand(MaxExcess + 1)
    /\ history[HistoryKeep].command = NumberedCommand(HistoryKeep + MaxExcess)

\* C15: after a successful save_state, load_state in a new process yields a
\* task_queue equal to the saved queue and a history equal to the last 100
\* entries of the saved history, entry by entry, field by field, in order.
C15_SaveLoadRoundTrip ==
    [][(SaveStep /\ store_op' = "ok")
         => /\ QueueFields(LoadedQueue(tasks_file', history_file')) = QueueFields(task_queue)
            /\ HistoryFields(LoadedHistory(tasks_file', history_file'))
                  = HistoryFields(Recent(history))]_vars

\* process_next_task has just saved two queued tasks and a history longer than
\* what the save keeps
C15_Witness ==
    /\ pc = "next"
    /\ store_op = "ok"
    /\ started # <<>>
    /\ Len(task_queue) >= 2
    /\ Len(tasks_file.doc) = Len(task_queue)
    /\ Len(history) > HistoryKeep
    /\ Len(history_file.doc) = HistoryKeep

\* C16: when at startup one of the two files is absent or malformed,
\* load_state leaves both task_queue and history empty.
C16_LoadIsAllOrNothing ==
    (/\ store_op = "load"
     /\ pc = "idle"
     /\ (tasks_file.state # "ok" \/ history_file.state # "ok"))
        => (task_queue = <<>> /\ history = <<>>)

\* C17: however a save_state call ends, the store holds either the two
\* documents it held before the call or the two documents of the call: never
\* the new queue next to the old history, never a file that does not parse.
C17_SaveIsAtomic ==
    [][SaveStep
         => \/ /\ tasks_file' = tasks_file
               /\ history_file' = history_file
            \/ /\ tasks_file' = Document(QueueFields(task_queue))
               /\ history_file' = Document(HistoryFields(Recent(history)))]_vars

\* C18: a save_state that fails inside process_next_task does not raise: the
\* queue, the history and the current task are as before and
\* process_next_task is called for the next queued task.
C18_FailedSaveIsSwallowed ==
    [][(pc = "finally" /\ store_op' \in SaveFailures)
         => /\ task_queue' = task_queue
            /\ history' = history
            /\ current_task' = current_task
            /\ pc' = "next"]_vars

\* the save after the first task of a drain failed and the second task is
\* being worked on
C18_Witness ==
    /\ pc = "work"
    /\ store_op \in SaveFailures
    /\ Len(started) >= 2
    /\ current_task.uid = started[Len(started)]

----------------------------------------------------------------------------
(* Claims C19-C20: the rule chain of plan_tasks *)

\* word occurs in s when case is ignored
ContainsIgnoringCase(s, word) ==
    \E i \in 0..(Len(s) - Len(word)) :
        \A j \in 1..Len(word) : LowerChar(s[i + j]) = LowerChar(word[j])

MatchesLoginRule(s) ==
    /\ ContainsIgnoringCase(s, Str_login)
    /\ ContainsIgnoringCase(s, Str_layout) \/ ContainsIgnoringCase(s, Str_style)

MatchesApiRule(s) ==
    /\ ContainsIgnoringCase(s, Str_api)
    /\ ContainsIgnoringCase(s, Str_add) \/ ContainsIgnoringCase(s, Str_create)

Descriptions(list) == [i \in 1..Len(list) |-> list[i].description]

\* C19: for a command that contains, case ignored, "login" and "layout" or
\* "style", plan_tasks returns exactly the five login tasks in their fixed
\* order, also when the command matches the api rule too.
C19_LoginRuleGivesFiveTasks ==
    [][(Called("plan_tasks") /\ MatchesLoginRule(last_command'))
         => Descriptions(ret'.list) =
              << Label("Locate login page files"),
                 Label("Analyze current layout structure"),
                 Label("Update CSS for modern styling"),
                 Label("Ensure responsive design"),
                 Label("Test across different screen sizes") >>]_vars

\* a command that matches both rules has been planned
C19_Witness ==
    /\ ret.op = "plan_tasks"
    /\ MatchesLoginRule(last_command)
    /\ MatchesApiRule(last_command)
    /\ Len(ret.list) = 5

\* C20: for a command that contains, case ignored, "api" and "add" or
\* "create" and does not match the login rule, plan_tasks returns exactly the
\* four api tasks in their fixed order.
C20_ApiRuleGivesFourTasks ==
    [][(/\ Called("plan_tasks")
        /\ MatchesApiRule(last_command')
        /\ ~MatchesLoginRule(last_command'))
         => Descriptions(ret'.list) =
              << Label("Identify API endpoint requirements"),
                 Label("Create API endpoint implementation"),
                 Label("Add input validation"),
                 Label("Write unit tests") >>]_vars

\* a command that asks to create an api, partly in upper case, has been planned
C20_Witness ==
    /\ ret.op = "plan_tasks"
    /\ MatchesApiRule(last_command)
    /\ ~MatchesLoginRule(last_command)
    /\ ContainsIgnoringCase(last_command, Str_create)
    /\ lower(last_command) # last_command
    /\ Len(ret.list) = 4

----------------------------------------------------------------------------
(* Claims C21-C23: what plan_tasks returns *)

\* C21: for a command that matches no rule, plan_tasks returns exactly one
\* task, whose description wraps the command with its characters as given,
\* case included.
C21_GenericTaskWrapsRawCommand ==
    [][(/\ Called("plan_tasks")
        /\ ~MatchesLoginRule(last_command')
        /\ ~MatchesApiRule(last_command'))
         => /\ Len(ret'.list) = 1
            /\ ret'.list[1].description =
                  [text |-> "Process command: ", arg |-> last_command']]_vars

\* C22: every task plan_tasks returns has a type entry and a target entry in
\* its metadata.
C22_MetadataHasTypeAndTarget ==
    [][Called("plan_tasks")
         => \A i \in 1..Len(ret'.list) :
               {"type", "target"} \subseteq DOMAIN ret'.list[i].metadata]_vars

\* the tasks of the store that were made by the plan_tasks call of task t
\* before t
EarlierOfPlan(ts, t) ==
    {ts[i] : i \in {j \in 1..Len(ts) : ts[j].plan = t.plan /\ ts[j].obj < t.obj}}

\* C23: plan_tasks leaves the current pointer at the id of the first task it
\* returns; the other tasks it returns are pending and are not what the pointer
\* names; and whenever the pointer names a task, the tasks the same plan_tasks
\* call made before it have been completed.
C23_FirstIsCurrentRestWait ==
    [][/\ Called("plan_tasks")
            => /\ ret'.list # <<>>
               /\ current_task_id' = ret'.list[1].id
               /\ \A i \in 2..Len(ret'.list) :
                     /\ ret'.list[i].status = "pending"
                     /\ ret'.list[i].id # current_task_id'
       /\ HasKey(tasks', current_task_id')
            => \A t \in EarlierOfPlan(tasks', tasks'[IndexOf(tasks', current_task_id')]) :
                  t.status = "completed"]_vars
----------------------------------------------------------------------------
(* Claims C24-C25: the tasks process_command creates *)

\* C24: the task a process_command call creates gets an id different from the
\* id of every task whose record the instance holds at that point (in the
\* queue, or in a history entry, loaded from the store or made in this session).
C24_OrchestratorIdsNeverReused ==
    [][(pc = "idle" /\ nCommands' = nCommands + 1)
         => \A t \in HeldNow : t.id # task_queue'[Len(task_queue')].id]_vars

\* C25: a process_command call appends to the queue as many tasks as the plan
\* that plan_tasks makes for its command holds (5 for a login/layout command,
\* 4 for an api/add command, 1 otherwise).
C25_QueueGetsThePlan ==
    [][(pc = "idle" /\ nCommands' = nCommands + 1)
         => Len(task_queue') = Len(task_queue)
               + Len(Template(lower(history'[Len(history')].command)))]_vars

----------------------------------------------------------------------------
(* Claims C26-C29: the prompt loop *)

\* a step in which get_status was called from outside the loop
StatusCalled == repl'.calls # repl.calls

\* a step that is a turn of the loop on a line read at the prompt
LineRead == repl'.lines # repl.lines /\ repl'.how \notin {"interrupt", "escape"}

\* C26 as stated: get_status changes no state and returns "working on: " and
\* the description cut to 20 characters when a current task is set, else
\* "N tasks queued" when the queue is not empty, else "idle".
C26_StatusWorkingQueuedIdle ==
    [][/\ (StatusCalled \/ repl'.lines # repl.lines)
            => repl'.status =
                  IF current_task # NoTask
                  THEN StatusText("working on: ",
                                  SubSeq(current_task.description, 1,
                                         Min(20, Len(current_task.description))),
                                  "")
                  ELSE IF task_queue # <<>>
                  THEN StatusText("", Decimal(Len(task_queue)), " tasks queued")
                  ELSE StatusText("", <<>>, "idle")
       /\ StatusCalled
            => UNCHANGED <<running, current_task, task_queue, history, tasks_file,
                           history_file, pc>>]_vars

\* C26 amended: get_status changes no state and returns "working on: ", the
\* first 20 characters of the description and "..." when a current task is
\* set, else "N tasks queued" when the queue is not empty, else "ready".
C26_StatusWorkingQueuedReady ==
    [][/\ (StatusCalled \/ repl'.lines # repl.lines)
            => repl'.status =
                  IF current_task # NoTask
                  THEN StatusText("working on: ",
                                  SubSeq(current_task.description, 1,
                                         Min(20, Len(current_task.description))),
                                  "...")
                  ELSE IF task_queue # <<>>
                  THEN StatusText("", Decimal(Len(task_queue)), " tasks queued")
                  ELSE StatusText("", <<>>, "ready")
       /\ StatusCalled
            => UNCHANGED <<running, current_task, task_queue, history, tasks_file,
                           history_file, pc>>]_vars

\* get_status was called while a task with a description of more than 20
\* characters was worked on
C26_Witness ==
    /\ pc = "work"
    /\ repl.calls > 0
    /\ Len(current_task.description) > 20
    /\ repl.status.prefix = "working on: "
    /\ Len(repl.status.body) = 20

\* a turn of the loop that leaves history, queue and drain alone
ControlFrame ==
    /\ history' = history
    /\ task_queue' = task_queue
    /\ current_task' = current_task
    /\ enqueued' = enqueued
    /\ started' = started
    /\ nCommands' = nCommands
    /\ pc' \in {"idle", "shutdown"}

\* a turn of the loop that hands the text to process_command
CommandGiven(text) ==
    /\ nCommands' = nCommands + 1
    /\ history' = Append(history, UserInput(text))
    /\ Len(task_queue') = Len(task_queue) + 1
    /\ task_queue'[Len(task_queue')].description = text
    /\ pc' = "next"

C28_ExitNeedsConfirmation ==
    [][(LineRead /\ repl'.how = "exit")
         => IF task_queue # <<>> \/ current_task # NoTask
            THEN /\ repl'.asked
                 /\ ~running' <=> repl'.answer \in {<<"y">>, <<"Y">>}
                 /\ running' => /\ pc' = "idle"
                                 /\ task_queue' = task_queue
                                 /\ current_task' = current_task
                                 /\ history' = history
                 /\ ~running' => pc' = "shutdown"
            ELSE /\ ~repl'.asked
                 /\ ~running'
                 /\ pc' = "shutdown"]_vars

\* exit was answered with n while tasks were queued: the session goes on
C28_Witness ==
    /\ repl.how = "exit"
    /\ repl.asked
    /\ repl.answer = <<"n">>
    /\ running
    /\ pc = "idle"
    /\ task_queue # <<>>

----------------------------------------------------------------------------
(* Claim C30: each task is executed once *)

TerminalEvents(uid) == Events("task_completed", uid) \cup Events("task_failed", uid)

\* C30: every task taken from the queue was popped once, is not in the queue
\* again, has at most one terminal history event (task_completed or
\* task_failed, never both), and has exactly one when process_next_task has
\* come to its finally clause for it.
C30_ExecutedExactlyOnce ==
    /\ Distinct(started)
    /\ \A i \in 1..Len(started) :
          /\ \A j \in 1..Len(task_queue) : task_queue[j].uid # started[i]
          /\ Cardinality(TerminalEvents(started[i])) <= 1
          /\ (current_task.uid # started[i] \/ pc \in {"finally", "next", "idle"})
                => Cardinality(TerminalEvents(started[i])) = 1

----------------------------------------------------------------------------
(* Claims C31-C34: the drain, the history and the store *)

\* C31: a task that process_next_task moved to in_progress is completed or
\* failed, with its history event appended, before the next task is taken from
\* the queue, and no task is in_progress except the one being worked on,
\* whether running was set or not when process_command was called.
C31_InProgressReachesTerminal ==
    /\ \A i \in 1..(Len(started) - 1) :
          /\ HasTerminal(started[i])
          /\ \A t \in HeldNow : t.uid = started[i] => t.status \in {"completed", "failed"}
    /\ \A t \in HeldNow :
          t.status = "in_progress"
             => t.uid = current_task.uid /\ pc \in {"work", "print", "except"}

\* the entries of a history document that record the end of task t
TerminalEntries(doc, t) ==
    {i \in 1..Len(doc) :
        /\ doc[i].type \in {"task_completed", "task_failed"}
        /\ doc[i].task = DumpTask(t)}

\* C32: in a drain, when a task has ended as completed or failed, save_state
\* runs before the next task is taken from the queue, and when it succeeds the
\* history document holds the terminal event of that task and the queue
\* document is the queue in memory, in which that task is not.
C32_SaveAfterEachTask ==
    [][/\ (pc = "finally" /\ current_task.status \in {"completed", "failed"})
            => /\ pc' = "next"
               /\ store_op' \in SaveOutcomes
               /\ task_queue' = task_queue /\ history' = history
               /\ store_op' = "ok"
                     => /\ history_file'.state = "ok"
                        /\ TerminalEntries(history_file'.doc, current_task) # {}
                        /\ tasks_file' = Document(DumpQueue(task_queue))
                        /\ \A j \in 1..Len(task_queue) :
                              task_queue[j].uid # current_task.uid
       /\ Len(started') > Len(started) => pc = "next"]_vars

\* a failed task has been saved with the next task still queued, which is
\* about to be taken
C32_Witness ==
    /\ pc = "next"
    /\ store_op = "ok"
    /\ current_task.status = "failed"
    /\ task_queue # <<>>
    /\ TerminalEntries(history_file.doc, current_task) # {}
    /\ Len(tasks_file.doc) = Len(task_queue)

\* C33: every step leaves the entries the history has in place, in order and
\* with the content they had, the task record inside a task_completed or
\* task_failed event included, and adds entries only at the end.
C33_HistoryAppendOnly ==
    [][/\ Len(history') >= Len(history)
       /\ \A i \in 1..Len(history) : history'[i] = history[i]]_vars

\* C34: from an empty store on, tasks.json is absent or holds the empty list:
\* every save_state, after a task and at shutdown, finds the queue empty and
\* writes an empty queue document, and a new process loads an empty queue.
C34_NoPendingTaskPersisted ==
    /\ tasks_file \in {Absent, Document(<<>>)}
    /\ pc \in {"finally", "idle", "stopped"} => task_queue = <<>>

\* process_next_task has saved after the task of a second command ended
C34_Witness ==
    /\ pc = "next"
    /\ store_op = "ok"
    /\ tasks_file = Document(<<>>)
    /\ HasTerminal(current_task.uid)
    /\ Len(history_file.doc) >= 4

----------------------------------------------------------------------------
(* Claims C35-C36: the planner's pointer and the Task dict *)

\* C35: in every planner state the current-task pointer is none or the id of
\* a task in the task store.
C35_CurrentIsNoneOrStored == current_task_id = 0 \/ HasKey(tasks, current_task_id)

\* clear_completed_tasks has just deleted a task that update_task_status had
\* completed and left another in the store, and the pointer is none
C35_Witness ==
    /\ ret.op = "clear_completed_tasks"
    /\ nUpdates > 0
    /\ current_task_id = 0
    /\ tasks # <<>>
    /\ CompletedIds(tasks) = {}

\* the dataclass fields of a Task
TaskFields(t) ==
    [id |-> t.id, description |-> t.description, status |-> t.status,
     result |-> t.result, error |-> t.error, metadata |-> t.metadata]

\* C36 as stated: Task.from_dict of what Task.to_dict returned for a Task t returns a
\* Task equal to t field for field, whatever the status, result, error and
\* metadata of t, an absent metadata included; from_dict of a dict whose status
\* value is none of the four raises.
C36_TaskDictRoundTrip ==
    [][Called("from_dict")
         => /\ ret'.arg = ret.list[1].status
                 => /\ ret'.ok
                    /\ TaskFields(ret'.list[1]) = TaskFields(tasks[1])
            /\ ret'.arg \in ForeignStatus => ~ret'.ok]_vars

\* C36 amended: Task.from_dict of what Task.to_dict returned for a Task t
\* returns a Task with the id, description, status, result and error of t and
\* with the metadata of t when that is a dict, the empty dict when t has no
\* metadata; from_dict of a dict whose status value is none of the four raises.
C36_RoundTripUpToAbsentMetadata ==
    [][Called("from_dict")
         => /\ ret'.arg = ret.list[1].status
                 => /\ ret'.ok
                    /\ TaskFields(ret'.list[1]) =
                          [TaskFields(tasks[1]) EXCEPT
                              !.metadata = IF @ = NoMetadata THEN EmptyDict ELSE @]
            /\ ret'.arg \in ForeignStatus => ~ret'.ok]_vars

\* a failed Task made without metadata has come back from the round trip
C36_Witness ==
    /\ ret.op = "from_dict"
    /\ ret.ok
    /\ ret.arg = "failed"
    /\ tasks[1].metadata = NoMetadata
    /\ tasks[1].error # None
    /\ ret.list[1].metadata = EmptyDict
    /\ ret.list[1].status = "failed"

====
